---- MODULE Spec2Model ----
(***************************************************************************)
(* Adapter composition in a BERT-style encoder: the per-block adapter and  *)
(* fusion registries, the active composition, and the interpreter that     *)
(* routes a hidden state through Stack / Fuse / Split compositions         *)
(* (src/transformers/adapter_bert.py).                                     *)
(*                                                                         *)
(* A Python str is a sequence of one-character strings; a tensor is the    *)
(* sequence, over the positions of the sequence axis, of symbolic terms    *)
(* (every module used here acts on each position separately).              *)
(***************************************************************************)
EXTENDS Integers, Sequences, FiniteSets, TLC

\* ------------------------------------------------------------------ bounds
NumLayers == 2
SeqLen == 2
MaxFusionCalls == 2
MaxTrainSteps == 1

\* ------------------------------------------------------- python strings
Comma == ","
A == <<"a">>
B == <<"b">>
C == <<"c">>
Names == {A, B, C}

RECURSIVE join(_)
\* ",".join(names)
join(names) ==
    IF Len(names) = 0 THEN <<>>
    ELSE IF Len(names) = 1 THEN names[1]
    ELSE names[1] \o <<Comma>> \o join(Tail(names))

RECURSIVE split_from(_, _, _)
split_from(s, i, cur) ==
    IF i > Len(s) THEN <<cur>>
    ELSE IF s[i] = Comma THEN <<cur>> \o split_from(s, i + 1, <<>>)
    ELSE split_from(s, i + 1, Append(cur, s[i]))

\* s.split(",")
split(s) == split_from(s, 1, <<>>)

\* -------------------------------------------------- composition nodes
\* A child of a composition block is a str (a Leaf) or another block.
Leaf(n) == [kind |-> "str", name |-> n, children |-> <<>>, split_index |-> 0]

IsBlock(node) == node.kind # "str"

RECURSIVE last(_)
last(node) ==
    IF ~IsBlock(node) THEN node.name
    ELSE last(node.children[Len(node.children)])

RECURSIVE first(_)
first(node) ==
    IF ~IsBlock(node) THEN node.name
    ELSE first(node.children[1])

RECURSIVE flatten(_)
flatten(node) ==
    IF ~IsBlock(node) THEN {node.name}
    ELSE UNION {flatten(node.children[i]) : i \in 1..Len(node.children)}

Stack(ch) == [kind |-> "Stack", name |-> <<>>, children |-> ch, split_index |-> 0]

\* Fuse.name is the comma-joined names of its children
Fuse(ch) ==
    [kind |-> "Fuse", name |-> join([i \in 1..Len(ch) |-> last(ch[i])]),
     children |-> ch, split_index |-> 0]

Split(c0, c1, k) ==
    [kind |-> "Split", name |-> <<>>, children |-> <<c0, c1>>, split_index |-> k]

\* a composition block of a kind adapters_forward does not know
OtherBlock(ch) == [kind |-> "Other", name |-> <<>>, children |-> ch, split_index |-> 0]

NoSetup == [kind |-> "None", name |-> <<>>, children |-> <<>>, split_index |-> 0]

\* ------------------------------------------------------------ blocks
Locations == {"mh_adapter", "output_adapter"}
Layers == 0..(NumLayers - 1)
\* a block is (layer index, adapter_config_key of the location)
Blocks == Layers \X Locations

\* --------------------------------------------------- adapter configs
Cfg(mh, out, lo, rbl, olb, ola) ==
    [mh_adapter |-> mh, output_adapter |-> out, leave_out |-> lo,
     residual_before_ln |-> rbl, original_ln_before |-> olb,
     original_ln_after |-> ola]

\* output location only, block layer norm before the adapter and after it
PfeifferLike == Cfg(FALSE, TRUE, {}, TRUE, TRUE, TRUE)
\* both locations, not in layer 0, layer norm neither before nor after
HoulsbyLeaveOut == Cfg(TRUE, TRUE, {0}, FALSE, FALSE, FALSE)
ConfigSet == {PfeifferLike, HoulsbyLeaveOut}

\* config.adapter_fusion: absent, or its query_before_ln flag
FusionCfgSet == {"absent", "query_before_ln", "query_after_ln"}

\* -------------------------------------------------------------- state
VARIABLES
    adapters,        \* config.adapters: name -> adapter config
    adapter_modules, \* per block: the names in the adapter ModuleDict
    adapter_fusion_layer, \* per block: fusion key -> fusion module
    active_setup,    \* config.adapters.active_setup
    adapter_fusion_config,  \* config.adapter_fusion
    nextId,          \* number of model-level add_fusion_layer calls so far
    steps,           \* number of optimizer steps so far
    ret,             \* outcome of the most recent operation
    trainable,       \* the modules whose parameters have requires_grad set
    heads,           \* self.heads: head name -> prediction head
    prediction_heads, \* config.prediction_heads: head name -> head config
    active_head,     \* self._active_head
    label2id,        \* config.label2id
    id2label,        \* config.id2label
    custom_heads,    \* config.custom_heads: the registered head types
    nextHead,        \* number of prediction heads constructed so far
    model_pass,      \* the model forward pass under way: the next block and
                     \* the composition each traversed block dispatched on
    in_flight        \* per caller: the position of its forward pass and the
                     \* outcome of every block it has traversed

vars == <<adapters, adapter_modules, adapter_fusion_layer, active_setup,
          adapter_fusion_config, nextId, steps, ret, trainable, heads,
          prediction_heads, active_head, label2id, id2label, custom_heads,
          nextHead, model_pass,
          in_flight>>

\* the state outside the registries and the active composition
head_vars == <<heads, prediction_heads, active_head, label2id, id2label,
               custom_heads, nextHead>>
aux == <<trainable, head_vars, model_pass, in_flight>>

\* ------------------------------------------------------------ tensors
HiddenStates == [p \in 1..SeqLen |-> <<"hidden_states", p>>]
InputTensor == [p \in 1..SeqLen |-> <<"input_tensor", p>>]
NoTensor == <<>>
NoneTensor(n) == [p \in 1..n |-> <<"None">>]

\* self.layer_norm(hidden_states + input_tensor)
layer_norm(hs, x) == [p \in 1..Len(hs) |-> <<"LayerNorm", hs[p], x[p]>>]

\* adapter_layer(hidden_states, residual_input=residual) -> (output, _, up)
adapter_output(n, hs, res) ==
    [p \in 1..Len(hs) |-> <<"adapter.output", n, hs[p], res[p]>>]
adapter_up(n, hs, res) ==
    [p \in 1..Len(hs) |-> <<"adapter.up", n, hs[p], res[p]>>]

\* the fusion module's forward(query, key, value, residual)
fusion_output(mod, query, key, value, res) ==
    [p \in 1..Len(res) |->
        <<"BertFusion", mod.id, query[p],
          [i \in 1..Len(key) |-> key[i][p]],
          [i \in 1..Len(value) |-> value[i][p]], res[p]>>]

\* hidden_states[:, :k, :] and hidden_states[:, k:, :]
slice_to(t, k) == SubSeq(t, 1, IF k > Len(t) THEN Len(t) ELSE k)
slice_from(t, k) == SubSeq(t, (IF k > Len(t) THEN Len(t) ELSE k) + 1, Len(t))

\* ---------------------------------------------------------- outcomes
NoErr == "none"
DepthError == "ValueError: setup is too deep"
NestingError == "ValueError: cannot nest"
SetupError == "ValueError: invalid adapter setup"
UnboundError == "UnboundLocalError: up"
FusionKeyError == "KeyError: adapter_fusion_layer"

\* -------------------------------------------- pre-parameter resolver
\* mutant: the residual is always taken after the layer norm
get_adapter_preparams_late_residual(adapter_config, hidden_states, input_tensor) ==
    LET hs1 == IF adapter_config.original_ln_before
               THEN layer_norm(hidden_states, input_tensor)
               ELSE hidden_states
    IN [hidden_states |-> hs1,
        query |-> IF adapter_fusion_config = "absent"
                  THEN NoneTensor(Len(hidden_states))
                  ELSE IF adapter_fusion_config = "query_before_ln"
                  THEN hidden_states ELSE hs1,
        residual |-> hs1]

get_adapter_preparams(adapter_config, hidden_states, input_tensor) ==
    LET hasFusion == adapter_fusion_config # "absent"
        qBefore == adapter_fusion_config = "query_before_ln"
        hs1 == IF adapter_config.original_ln_before
               THEN layer_norm(hidden_states, input_tensor)
               ELSE hidden_states
        residual == IF adapter_config.residual_before_ln
                    THEN hidden_states ELSE hs1
        query == IF hasFusion /\ qBefore THEN hidden_states
                 ELSE IF hasFusion THEN hs1
                 ELSE NoneTensor(Len(hidden_states))
    IN [hidden_states |-> hs1, query |-> query, residual |-> residual]

\* ------------------------------------------- composition interpreter
\* What a call hands back: the raised error (or none), hidden_states, the
\* local variable up (upb: whether it has been assigned), the local list
\* up_list, and the calls made so far to the resolver, the adapter
\* modules and the fusion modules.
Out(err, hs, up, upb, up_list, calls) ==
    [err |-> err, hs |-> hs, up |-> up, upb |-> upb, up_list |-> up_list,
     calls |-> calls]

PreparamsCall(cfg, hs, x) == <<"get_adapter_preparams", cfg, hs, x>>
AdapterCall(n, hs, res) == <<"adapter", n, hs, res>>
FusionCall(key, query, k, v, res) == <<"fusion", key, query, k, v, res>>

RECURSIVE adapter_stack(_, _, _, _, _, _)
RECURSIVE adapter_fusion(_, _, _, _, _, _)
RECURSIVE adapter_split(_, _, _, _, _, _)
RECURSIVE stack_loop(_, _, _, _, _, _)
RECURSIVE fusion_loop(_, _, _, _, _, _, _)
RECURSIVE split_loop(_, _, _, _, _, _, _, _)

\* mutant: the depth check lets one more level through
too_deep_off_by_one(layer, lvl) == IsBlock(layer) /\ lvl >= 2

\* `isinstance(adapter_stack_layer, AdapterCompositionBlock) and lvl >= 1`
too_deep(layer, lvl) == IsBlock(layer) /\ lvl >= 1

\* adapter_stack cases 1 and 2, after the nested call returned r:
\* `hidden_states = ...; up = hidden_states`
stack_nested(st, r) ==
    IF r.err # NoErr
    THEN [st EXCEPT !.err = r.err, !.calls = r.calls]
    ELSE [st EXCEPT !.hs = r.hs, !.up = r.hs, !.upb = TRUE, !.calls = r.calls]

\* mutant: the adapter's output does not become the hidden state handed on
stack_adapter_not_chained(st, name, adapter_config, input_tensor, pp) ==
    [st EXCEPT
       !.up = adapter_up(name, pp.hidden_states, pp.residual),
       !.upb = TRUE,
       !.calls = st.calls \o
          <<PreparamsCall(adapter_config, st.hs, input_tensor),
            AdapterCall(name, pp.hidden_states, pp.residual)>>]

\* adapter_stack case 3, pp being what get_adapter_preparams returned
stack_adapter(st, name, adapter_config, input_tensor, pp) ==
    [st EXCEPT
       !.hs = adapter_output(name, pp.hidden_states, pp.residual),
       !.up = adapter_up(name, pp.hidden_states, pp.residual),
       !.upb = TRUE,
       !.calls = st.calls \o
          <<PreparamsCall(adapter_config, st.hs, input_tensor),
            AdapterCall(name, pp.hidden_states, pp.residual)>>]

\* the body of `for adapter_stack_layer in adapter_setup`, from child i on
stack_loop(blk, adapter_setup, input_tensor, lvl, i, st) ==
    IF st.err # NoErr \/ i > Len(adapter_setup.children) THEN st
    ELSE IF too_deep(adapter_setup.children[i], lvl)
      THEN [st EXCEPT !.err = DepthError]
    ELSE IF adapter_setup.children[i].kind = "Fuse" THEN
      stack_loop(blk, adapter_setup, input_tensor, lvl, i + 1,
          stack_nested(st, adapter_fusion(blk, adapter_setup.children[i],
                                          st.hs, input_tensor, 0, st.calls)))
    ELSE IF adapter_setup.children[i].kind = "Split" THEN
      stack_loop(blk, adapter_setup, input_tensor, lvl, i + 1,
          stack_nested(st, adapter_split(blk, adapter_setup.children[i],
                                         st.hs, input_tensor, 0, st.calls)))
    ELSE IF ~IsBlock(adapter_setup.children[i])
            /\ adapter_setup.children[i].name \in adapter_modules[blk] THEN
      stack_loop(blk, adapter_setup, input_tensor, lvl, i + 1,
          stack_adapter(st, adapter_setup.children[i].name,
              adapters[adapter_setup.children[i].name], input_tensor,
              get_adapter_preparams(adapters[adapter_setup.children[i].name],
                                    st.hs, input_tensor)))
    \* Case X: no adapter of this module -> ignore
    ELSE stack_loop(blk, adapter_setup, input_tensor, lvl, i + 1, st)

\* `return hidden_states, up`, r being the state the loop ended in
stack_return(r) ==
    IF r.err # NoErr THEN r
    \* up was never assigned
    ELSE IF ~r.upb THEN [r EXCEPT !.err = UnboundError]
    ELSE r

adapter_stack(blk, adapter_setup, hidden_states, input_tensor, lvl, calls) ==
    stack_return(
        stack_loop(blk, adapter_setup, input_tensor, lvl, 1,
            Out(NoErr, hidden_states, NoTensor, FALSE, <<>>, calls)))

\* adapter_fusion case 1, after the nested Stack returned r: `_, up = ...`
fusion_nested(st, r) ==
    IF r.err # NoErr
    THEN [st EXCEPT !.err = r.err, !.calls = r.calls]
    ELSE [st EXCEPT !.up = r.up, !.upb = TRUE, !.calls = r.calls]

\* `up_list.append(up)`, st1 being the state after the cases
fusion_append(st1) ==
    IF st1.err # NoErr THEN st1
    ELSE IF ~st1.upb THEN [st1 EXCEPT !.err = UnboundError]
    ELSE [st1 EXCEPT !.up_list = Append(st1.up_list, st1.up)]

\* the body of `for adapter_block in adapter_setup`, from child i on
fusion_loop(blk, adapter_setup, input_tensor, lvl, residual, i, st) ==
    IF st.err # NoErr \/ i > Len(adapter_setup.children) THEN st
    ELSE fusion_loop(blk, adapter_setup, input_tensor, lvl, residual, i + 1,
      fusion_append(
        IF adapter_setup.children[i].kind = "Stack" THEN
          fusion_nested(st, adapter_stack(blk, adapter_setup.children[i],
                                st.hs, input_tensor, lvl + 1, st.calls))
        ELSE IF ~IsBlock(adapter_setup.children[i])
                /\ adapter_setup.children[i].name \in adapter_modules[blk] THEN
          [st EXCEPT
             !.up = adapter_up(adapter_setup.children[i].name, st.hs, residual),
             !.upb = TRUE,
             !.calls = Append(st.calls,
                          AdapterCall(adapter_setup.children[i].name, st.hs,
                                      residual))]
        ELSE IF IsBlock(adapter_setup.children[i]) THEN
          [st EXCEPT !.err = NestingError]
        \* Case X: no adapter of this module -> ignore
        ELSE st))

\* `if len(up_list) > 0:` and the call of the fusion module, r being the
\* state the loop ended in
fusion_return(blk, adapter_setup, pp, r) ==
    IF r.err # NoErr THEN r
    ELSE IF Len(r.up_list) > 0 THEN
      IF adapter_setup.name \notin DOMAIN adapter_fusion_layer[blk]
      THEN [r EXCEPT !.err = FusionKeyError]
      ELSE [r EXCEPT
              !.hs = fusion_output(adapter_fusion_layer[blk][adapter_setup.name],
                                   pp.query, r.up_list, r.up_list, pp.residual),
              !.calls = Append(r.calls,
                           FusionCall(adapter_setup.name, pp.query, r.up_list,
                                      r.up_list, pp.residual))]
    ELSE r

\* adapter_fusion after its get_adapter_preparams call returned pp
fusion_body(blk, adapter_setup, hidden_states, input_tensor, lvl, calls, pp) ==
    fusion_return(blk, adapter_setup, pp,
        fusion_loop(blk, adapter_setup, input_tensor, lvl, pp.residual, 1,
            Out(NoErr, pp.hidden_states, NoTensor, FALSE, <<>>,
                Append(calls, PreparamsCall(adapters[last(adapter_setup)],
                                            hidden_states, input_tensor)))))

\* mutant: the config of the first fused adapter is used
adapter_fusion_first_config(blk, adapter_setup, hidden_states, input_tensor, lvl, calls) ==
    fusion_body(blk, adapter_setup, hidden_states, input_tensor, lvl, calls,
        get_adapter_preparams(adapters[first(adapter_setup)], hidden_states,
                              input_tensor))

adapter_fusion(blk, adapter_setup, hidden_states, input_tensor, lvl, calls) ==
    \* config of _last_ fused adapter is significant
    fusion_body(blk, adapter_setup, hidden_states, input_tensor, lvl, calls,
        get_adapter_preparams(adapters[last(adapter_setup)], hidden_states,
                              input_tensor))

\* adapter_split case 1, after the nested Stack returned r: `_, up = ...`
split_nested(st, r) == [st EXCEPT !.err = r.err, !.calls = r.calls]

\* the body of `for i, adapter_block in enumerate(adapter_setup)`; seg holds
\* split_hidden_states, xs split_input_tensor, rs split_residual
split_loop(blk, adapter_setup, xs, rs, lvl, i, seg, st) ==
    IF st.err # NoErr \/ i > Len(adapter_setup.children)
    THEN [st EXCEPT !.up_list = seg]
    ELSE IF adapter_setup.children[i].kind = "Stack" THEN
      split_loop(blk, adapter_setup, xs, rs, lvl, i + 1, seg,
          split_nested(st, adapter_stack(blk, adapter_setup.children[i],
                               seg[i], xs[i], lvl + 1, st.calls)))
    ELSE IF ~IsBlock(adapter_setup.children[i])
            /\ adapter_setup.children[i].name \in adapter_modules[blk] THEN
      split_loop(blk, adapter_setup, xs, rs, lvl, i + 1,
          [seg EXCEPT ![i] = adapter_output(adapter_setup.children[i].name,
                                            seg[i], rs[i])],
          [st EXCEPT !.calls = Append(st.calls,
                        AdapterCall(adapter_setup.children[i].name, seg[i],
                                    rs[i]))])
    ELSE IF IsBlock(adapter_setup.children[i]) THEN
      [st EXCEPT !.err = NestingError]
    \* Case X: no adapter of this module -> ignore
    ELSE split_loop(blk, adapter_setup, xs, rs, lvl, i + 1, seg, st)

\* `torch.cat(split_hidden_states, dim=1)`, r being the state the loop
\* ended in
split_return(r) ==
    IF r.err # NoErr THEN [r EXCEPT !.up_list = <<>>]
    ELSE [r EXCEPT !.hs = r.up_list[1] \o r.up_list[2], !.up_list = <<>>]

\* adapter_split after its get_adapter_preparams call returned pp: the
\* tensors are split at index k
split_body(blk, adapter_setup, hidden_states, input_tensor, lvl, calls, pp, k) ==
    split_return(
        split_loop(blk, adapter_setup,
            <<slice_to(input_tensor, k), slice_from(input_tensor, k)>>,
            <<slice_to(pp.residual, k), slice_from(pp.residual, k)>>,
            lvl, 1,
            <<slice_to(pp.hidden_states, k), slice_from(pp.hidden_states, k)>>,
            Out(NoErr, pp.hidden_states, NoTensor, FALSE, <<>>,
                Append(calls, PreparamsCall(adapters[first(adapter_setup)],
                                            hidden_states, input_tensor)))))

adapter_split(blk, adapter_setup, hidden_states, input_tensor, lvl, calls) ==
    \* config of _first_ of splitted adapters is significant
    split_body(blk, adapter_setup, hidden_states, input_tensor, lvl, calls,
        get_adapter_preparams(adapters[first(adapter_setup)], hidden_states,
                              input_tensor),
        adapter_setup.split_index)

\* --------------------------------------------------- block integration
\* the layer norm that the config of the last adapter asks for, r being
\* what the interpreter returned
dispatch_return(adapter_setup, input_tensor, r) ==
    IF r.err # NoErr THEN [err |-> r.err, hs |-> NoTensor, calls |-> r.calls]
    ELSE [err |-> NoErr,
          hs |-> IF adapters[last(adapter_setup)].original_ln_after
                 THEN layer_norm(r.hs, input_tensor) ELSE r.hs,
          calls |-> r.calls]

\* mutant: a bare adapter name is wrapped into a one-element Stack
dispatch_normalizing(blk, adapter_setup, hidden_states, input_tensor) ==
    IF adapter_setup.kind = "Stack" THEN
      dispatch_return(adapter_setup, input_tensor,
          adapter_stack(blk, adapter_setup, hidden_states, input_tensor, 0, <<>>))
    ELSE IF adapter_setup.kind = "str" THEN
      dispatch_return(adapter_setup, input_tensor,
          adapter_stack(blk, Stack(<<adapter_setup>>), hidden_states,
                        input_tensor, 0, <<>>))
    ELSE IF adapter_setup.kind = "Fuse" THEN
      dispatch_return(adapter_setup, input_tensor,
          adapter_fusion(blk, adapter_setup, hidden_states, input_tensor, 0, <<>>))
    ELSE IF adapter_setup.kind = "Split" THEN
      dispatch_return(adapter_setup, input_tensor,
          adapter_split(blk, adapter_setup, hidden_states, input_tensor, 0, <<>>))
    ELSE [err |-> SetupError, hs |-> NoTensor, calls |-> <<>>]

\* the branch of adapters_forward taken when the block hosts an adapter of
\* the active composition: dispatch on its kind
dispatch(blk, adapter_setup, hidden_states, input_tensor) ==
    IF adapter_setup.kind = "Stack" THEN
      dispatch_return(adapter_setup, input_tensor,
          adapter_stack(blk, adapter_setup, hidden_states, input_tensor, 0, <<>>))
    ELSE IF adapter_setup.kind = "Fuse" THEN
      dispatch_return(adapter_setup, input_tensor,
          adapter_fusion(blk, adapter_setup, hidden_states, input_tensor, 0, <<>>))
    ELSE IF adapter_setup.kind = "Split" THEN
      dispatch_return(adapter_setup, input_tensor,
          adapter_split(blk, adapter_setup, hidden_states, input_tensor, 0, <<>>))
    \* raise ValueError(f"Invalid adapter setup {adapter_setup}")
    ELSE [err |-> SetupError, hs |-> NoTensor, calls |-> <<>>]

\* mutant: the block does not check that it hosts an adapter of the setup
adapters_forward_unchecked(blk, hidden_states, input_tensor) ==
    IF active_setup # NoSetup
    THEN dispatch(blk, active_setup, hidden_states, input_tensor)
    ELSE [err |-> NoErr, hs |-> layer_norm(hidden_states, input_tensor),
          calls |-> <<>>]

\* mutant: the block's layer norm is applied after every composition
adapters_forward_always_ln(blk, hidden_states, input_tensor) ==
    IF active_setup # NoSetup
       /\ (adapter_modules[blk] \cap flatten(active_setup)) # {}
    THEN LET r == dispatch(blk, active_setup, hidden_states, input_tensor) IN
         IF r.err = NoErr /\ ~adapters[last(active_setup)].original_ln_after
         THEN [r EXCEPT !.hs = layer_norm(r.hs, input_tensor)]
         ELSE r
    ELSE [err |-> NoErr, hs |-> layer_norm(hidden_states, input_tensor),
          calls |-> <<>>]

adapters_forward(blk, hidden_states, input_tensor) ==
    LET adapter_setup == active_setup IN
    IF adapter_setup # NoSetup
       /\ (adapter_modules[blk] \cap flatten(adapter_setup)) # {}
    THEN dispatch(blk, adapter_setup, hidden_states, input_tensor)
    ELSE [err |-> NoErr, hs |-> layer_norm(hidden_states, input_tensor),
          calls |-> <<>>]

\* ------------------------------------------------------ registries
\* BertAdaptersBaseMixin.add_adapter at one block: the names in the block's
\* adapter ModuleDict afterwards
add_adapter_block(blk, adapter_name, modules) ==
    LET present == adapter_name \in DOMAIN adapters' IN
    IF present /\ adapters'[adapter_name][blk[2]]
    THEN modules \cup {adapter_name}
    ELSE modules

\* mutant: leave_out is not consulted
encoder_add_adapter_everywhere(adapter_name) ==
    [blk \in Blocks |-> add_adapter_block(blk, adapter_name, adapter_modules[blk])]

\* BertEncoderAdaptersMixin.add_adapter, BertLayerAdaptersMixin.add_adapter
encoder_add_adapter(adapter_name) ==
    LET adapter_config == adapters'[adapter_name]
        leave_out == adapter_config.leave_out
    IN [blk \in Blocks |->
          IF blk[1] \notin leave_out
          THEN add_adapter_block(blk, adapter_name, adapter_modules[blk])
          ELSE adapter_modules[blk]]

\* the configuration provider: the value the named adapters share under
\* key, if they all agree
common_config_value(adapter_names, key) ==
    LET vals == {adapters[adapter_names[i]][key] : i \in 1..Len(adapter_names)}
    IN IF Cardinality(vals) = 1
       THEN [some |-> TRUE, value |-> CHOOSE v \in vals : TRUE]
       ELSE [some |-> FALSE, value |-> FALSE]

\* mutant: a shared value counts, whatever it is
Truthy_any_shared(v) == v.some

\* truth value of what common_config_value returned
Truthy(v) == v.some /\ v.value

\* a fusion module: has_value says whether it has a value projection
BertFusion(id, has_value, weight) ==
    [id |-> id, has_value |-> has_value, weight |-> weight]

\* BertAdaptersBaseMixin.add_fusion_layer at one block: the block's fusion
\* ModuleDict afterwards. names is a list (islist) or a str.
add_fusion_layer(blk, names, module) ==
    LET adapter_names == IF names.islist THEN names.val ELSE split(names.val)
    IN IF Truthy(common_config_value(adapter_names, blk[2]))
       THEN (join(adapter_names) :> module) @@ adapter_fusion_layer[blk]
       ELSE adapter_fusion_layer[blk]

\* BertAdaptersBaseMixin.enable_adapters at one block: the modules whose
\* parameters get requires_grad = True
enable_adapters(blk, adapter_setup, unfreeze_adapters, unfreeze_fusion) ==
    (IF unfreeze_adapters
     THEN {<<blk, "adapter", n>> :
              n \in flatten(adapter_setup) \cap adapter_modules[blk]}
     ELSE {})
    \cup
    (IF unfreeze_fusion
     THEN (IF adapter_setup.kind = "Fuse"
              /\ adapter_setup.name \in DOMAIN adapter_fusion_layer[blk]
           THEN {<<blk, "fusion", adapter_setup.name>>} ELSE {})
          \cup
          {<<blk, "fusion", adapter_setup.children[i].name>> :
              i \in {j \in 1..Len(adapter_setup.children) :
                        /\ adapter_setup.children[j].kind = "Fuse"
                        /\ adapter_setup.children[j].name
                              \in DOMAIN adapter_fusion_layer[blk]}}
     ELSE {})

\* --------------------------------------------------- regularization
HiddenSize == 2
\* the 0.01 of get_fusion_regularization_loss, in hundredths
RegCoefficient == 1

Identity == [i \in 1..HiddenSize |-> [j \in 1..HiddenSize |-> IF i = j THEN 1 ELSE 0]]
ZeroWeight == [i \in 1..HiddenSize |-> [j \in 1..HiddenSize |-> 0]]
WeightSet == {Identity, ZeroWeight}

RECURSIVE SumSeq(_)
SumSeq(q) == IF Len(q) = 0 THEN 0 ELSE q[1] + SumSeq(Tail(q))

\* (target - weight).pow(2).sum()
SquaredDistance(target, weight) ==
    SumSeq([i \in 1..HiddenSize |->
        SumSeq([j \in 1..HiddenSize |->
            (target[i][j] - weight[i][j]) * (target[i][j] - weight[i][j])])])

RECURSIVE SumModules(_, _)
\* the inner loops over one adapter_fusion_layer ModuleDict
SumModules(reg, keys) ==
    IF keys = {} THEN 0
    ELSE LET k == CHOOSE x \in keys : TRUE IN
         (IF reg[k].has_value
          THEN RegCoefficient * SquaredDistance(Identity, reg[k].weight)
          ELSE 0) + SumModules(reg, keys \ {k})

RECURSIVE reg_loss_from_output_only(_)
\* mutant: the attention-output fusion modules are left out of the sum
reg_loss_from_output_only(l) ==
    IF l >= NumLayers THEN 0
    ELSE SumModules(adapter_fusion_layer[<<l, "output_adapter">>],
                    DOMAIN adapter_fusion_layer[<<l, "output_adapter">>])
         + reg_loss_from_output_only(l + 1)

RECURSIVE reg_loss_from(_)
\* the loop over self.encoder.layer, from layer l on; in hundredths
reg_loss_from(l) ==
    IF l >= NumLayers THEN 0
    ELSE SumModules(adapter_fusion_layer[<<l, "output_adapter">>],
                    DOMAIN adapter_fusion_layer[<<l, "output_adapter">>])
         + SumModules(adapter_fusion_layer[<<l, "mh_adapter">>],
                      DOMAIN adapter_fusion_layer[<<l, "mh_adapter">>])
         + reg_loss_from(l + 1)

get_fusion_regularization_loss == reg_loss_from(0)

\* ------------------------------------------------ prediction heads
MaxHeadCalls == 3
MaxLabels == 2

\* self.active_head = None
NoHead == <<>>
\* A dict is the sequence of its <<key, value>> items in insertion order.
dict_keys(d) == {d[i][1] : i \in 1..Len(d)}

\* d[k] = v: a key already there keeps its place
dict_set(d, k, v) ==
    IF k \in dict_keys(d)
    THEN [i \in 1..Len(d) |-> IF d[i][1] = k THEN <<k, v>> ELSE d[i]]
    ELSE Append(d, <<k, v>>)

\* {value: key for key, value in d.items()}
RECURSIVE inverted(_)
inverted(d) ==
    IF d = <<>> THEN <<>>
    ELSE dict_set(inverted(SubSeq(d, 1, Len(d) - 1)),
                  d[Len(d)][2], d[Len(d)][1])

\* a label mapping: None, or a dict; the default LABEL_<i> names and the
\* id2label a caller hands in
NoLabels == [given |-> FALSE, map |-> <<>>]
DefaultLabels(n) ==
    [given |-> TRUE, map |-> [i \in 1..n |-> <<(<<"LABEL_", i - 1>>), i - 1>>]]
CallerLabels(n) ==
    [given |-> TRUE, map |-> [i \in 1..n |-> <<i - 1, (<<"label", i - 1>>)>>]]

\* `if d:` for a label mapping: neither None nor empty
TruthyLabels(l) == l.given /\ l.map # <<>>

invert_labels(l) == [given |-> TRUE, map |-> inverted(l.map)]

HeadExistsError == "ValueError: Model already contains a head"
LabelKeyError == "KeyError: label2id"
NoneItemsError == "AttributeError: NoneType has no attribute items"
NotRegisteredError == "AttributeError: head_type not registered"

\* ClassificationHead(head_name, num_labels, layers, activation_function,
\* id2label, self): the head and its config
ClassificationHead(head_name, id, num_labels, id2label_arg) ==
    [name |-> head_name, id |-> id,
     config |-> [head_type |-> "classification", num_labels |-> num_labels,
                 label2id |-> IF TruthyLabels(id2label_arg)
                              THEN invert_labels(id2label_arg)
                              ELSE NoLabels]]

\* a head of a registered custom class: its config is the caller's
CustomHead(head_name, id, config) ==
    [name |-> head_name, id |-> id, config |-> config]

\* head.config["label2id"] = ...
set_label2id(head, l) ==
    [head EXCEPT !.config = ("label2id" :> l) @@ head.config]

\* the default from num_labels, then the one from num_choices
default_from_counts(head) ==
    IF "num_choices" \in DOMAIN head.config
    THEN set_label2id(head, DefaultLabels(head.config.num_choices))
    ELSE IF "num_labels" \in DOMAIN head.config
    THEN set_label2id(head, DefaultLabels(head.config.num_labels))
    ELSE head

\* the label2id default that add_prediction_head fills in
with_default_labels(head) ==
    IF "label2id" \notin DOMAIN head.config
    THEN default_from_counts(head)
    ELSE IF ~head.config.label2id.given
    THEN default_from_counts(head)
    ELSE head

\* get_labels_dict(head_name) for a registered head: the error and the
\* returned id2label
get_labels_dict(config) ==
    IF "label2id" \in DOMAIN config
    THEN IF config.label2id.given
         THEN [err |-> NoErr, value |-> invert_labels(config.label2id)]
         ELSE [err |-> NoneItemsError, value |-> NoLabels]
    ELSE [err |-> NoErr, value |-> NoLabels]

\* the two assignments of the setter for a registered head
setter_assign(config, old) ==
    IF "label2id" \notin DOMAIN config
    THEN [err |-> LabelKeyError, label2id |-> old.label2id,
          id2label |-> old.id2label]
    ELSE [err |-> get_labels_dict(config).err,
          label2id |-> config.label2id,
          id2label |-> IF get_labels_dict(config).err = NoErr
                       THEN get_labels_dict(config).value
                       ELSE old.id2label]

\* the active_head setter: the raised error, config.label2id and
\* config.id2label afterwards; old holds the two before
active_head_setter(head_name, hs, old) ==
    IF head_name # NoHead /\ head_name \in DOMAIN hs
    THEN setter_assign(hs[head_name].config, old)
    ELSE [err |-> NoErr, label2id |-> old.label2id, id2label |-> old.id2label]

\* config.label2id and config.id2label of the current state
LabelsNow == [label2id |-> label2id, id2label |-> id2label]

\* the outcome of a call that changed nothing
head_call_failed(err, head_name, overwrite_ok) ==
    [err |-> err, heads |-> heads,
     prediction_heads |-> prediction_heads, active_head |-> active_head,
     label2id |-> label2id, id2label |-> id2label,
     arg |-> [head_name |-> head_name, overwrite_ok |-> overwrite_ok]]

\* add_prediction_head once the head h is stored: the setter has run
head_stored(h, overwrite_ok, set) ==
    [err |-> set.err,
     heads |-> (h.name :> h) @@ heads,
     prediction_heads |-> (h.name :> h.config) @@ prediction_heads,
     active_head |-> h.name,
     label2id |-> set.label2id,
     id2label |-> set.id2label,
     arg |-> [head_name |-> h.name, overwrite_ok |-> overwrite_ok]]

\* mutant: an existing head is overwritten without being asked to
add_prediction_head_overwriting(head, overwrite_ok) ==
    head_stored(with_default_labels(head), overwrite_ok,
        active_head_setter(head.name,
            (head.name :> with_default_labels(head)) @@ heads, LabelsNow))

\* BertModelHeadsMixin.add_prediction_head: the raised error and the head
\* registry, config.prediction_heads, active head, config.label2id and
\* config.id2label afterwards
add_prediction_head(head, overwrite_ok) ==
    IF head.name \notin DOMAIN heads \/ overwrite_ok
    THEN head_stored(with_default_labels(head), overwrite_ok,
             active_head_setter(head.name,
                 (head.name :> with_default_labels(head)) @@ heads,
                 LabelsNow))
    ELSE head_call_failed(HeadExistsError, head.name, overwrite_ok)

\* ------------------------------------------------ model forward pass
\* the blocks in the order the encoder traverses them: per layer the
\* attention output, then the layer output
BlockOrder ==
    [i \in 1..(2 * NumLayers) |->
        <<(i - 1) \div 2, IF i % 2 = 1 THEN "mh_adapter" ELSE "output_adapter">>]

\* no pass under way
NoPass == [pc |-> 0, log |-> <<>>]

\* mutant: the composition is read at the first block and kept for the pass
pass_step_snapshot(mp) ==
    [pc |-> IF mp.pc = Len(BlockOrder) THEN 0 ELSE mp.pc + 1,
     log |-> Append(mp.log, IF mp.log = <<>> THEN active_setup ELSE mp.log[1])]

\* `adapter_setup = self.config.adapters.active_setup` in the block at
\* position mp.pc: the composition it dispatches on joins the log
pass_step(mp) ==
    [pc |-> IF mp.pc = Len(BlockOrder) THEN 0 ELSE mp.pc + 1,
     log |-> Append(mp.log, active_setup)]

\* the callers that may have a forward pass under way at the same time
Callers == {"t1", "t2"}

\* a caller with no pass under way
NoFlight == [pc |-> 0, out |-> <<>>]

\* the position after the last block: the pass is over, its caller has
\* not yet taken the outcome
Over == Len(BlockOrder) + 1

\* ----------------------------------------------------------- inputs
la == Leaf(A)
lb == Leaf(B)
lc == Leaf(C)

StackSetups ==
    { Stack(<<la>>), Stack(<<la, lb>>), Stack(<<la, lb, lc>>),
      Stack(<<lc, Fuse(<<la, lb>>)>>), Stack(<<Split(la, lb, 1)>>),
      Stack(<<Fuse(<<Stack(<<lc, la>>), lb>>)>>),
      Stack(<<la, Stack(<<lb>>)>>) }

FuseSetups ==
    { Fuse(<<la, lb>>), Fuse(<<lb, la>>),
      Fuse(<<Stack(<<lc, la>>), lb>>),
      Fuse(<<Stack(<<Fuse(<<la, lb>>)>>), lc>>),
      Fuse(<<Stack(<<la, Stack(<<lb>>)>>), lc>>),
      Fuse(<<Fuse(<<la, lb>>), lc>>), Fuse(<<la, Split(lb, lc, 1)>>) }

SplitSetups ==
    { Split(la, lb, 1), Split(Stack(<<la>>), lb, 1),
      Split(Stack(<<la, lc>>), Stack(<<lb>>), 1),
      Split(Fuse(<<la, lb>>), lc, 1), Split(la, Split(lb, lc, 1), 1),
      Split(Stack(<<Split(la, lb, 1)>>), lc, 1) }

\* what a caller may hand to set_active_adapters
SetupInputs ==
    StackSetups \cup FuseSetups \cup SplitSetups
    \cup {OtherBlock(<<la>>), la, NoSetup}

\* the compositions handed to enable_adapters
TrainSetups ==
    { Stack(<<la>>), Stack(<<la, lb>>), Fuse(<<la, lb>>),
      Stack(<<Fuse(<<la, lb>>)>>) }

\* what a caller may hand to add_fusion_layer
FusionInputs ==
    { [islist |-> TRUE, val |-> <<A, B>>],
      [islist |-> FALSE, val |-> <<"a", Comma, "b">>],
      [islist |-> TRUE, val |-> <<B, A>>] }

\* the key add_fusion_layer registers the module under
KeyOf(names) == join(IF names.islist THEN names.val ELSE split(names.val))

NamesOf(names) ==
    LET l == IF names.islist THEN names.val ELSE split(names.val)
    IN {l[i] : i \in 1..Len(l)}

\* ---------------------------------------------------------- actions
NoBlock == <<0 - 1, "none">>
\* arg is the names argument of the call, for add_fusion_layer
NoArg == [islist |-> FALSE, val |-> <<>>]
Ret(op, blk, err, hs, calls, value) ==
    [op |-> op, blk |-> blk, err |-> err, hs |-> hs, calls |-> calls,
     value |-> value, arg |-> NoArg]
RetNone(op) == Ret(op, NoBlock, NoErr, NoTensor, <<>>, 0)

Init ==
    /\ adapters = <<>>
    /\ adapter_modules = [blk \in Blocks |-> {}]
    /\ adapter_fusion_layer = [blk \in Blocks |-> <<>>]
    /\ active_setup = NoSetup
    /\ adapter_fusion_config \in FusionCfgSet
    /\ nextId = 0
    /\ steps = 0
    /\ ret = RetNone("init")
    /\ trainable = {}
    /\ heads = <<>>
    /\ prediction_heads = <<>>
    /\ active_head = NoHead
    /\ label2id = NoLabels
    /\ id2label = NoLabels
    /\ custom_heads = {}
    /\ nextHead = 0
    /\ model_pass = NoPass
    /\ in_flight = [c \in Callers |-> NoFlight]

\* BertModelAdaptersMixin.add_adapter
add_adapter(adapter_name, config) ==
    /\ adapter_name \notin DOMAIN adapters
    /\ adapters' = (adapter_name :> config) @@ adapters
    /\ adapter_modules' = encoder_add_adapter(adapter_name)
    /\ ret' = RetNone("add_adapter")
    /\ UNCHANGED <<adapter_fusion_layer, active_setup, adapter_fusion_config,
                   nextId, steps>>
    /\ UNCHANGED aux

\* BertModelAdaptersMixin._add_fusion_layer: every block of every layer
AddFusionLayer(names, has_value, weight) ==
    /\ nextId < MaxFusionCalls
    \* BertFusion(self.config) is built from config.adapter_fusion
    /\ adapter_fusion_config # "absent"
    /\ NamesOf(names) \subseteq DOMAIN adapters
    /\ adapter_fusion_layer' =
         [blk \in Blocks |->
            add_fusion_layer(blk, names, BertFusion(nextId + 1, has_value, weight))]
    /\ nextId' = nextId + 1
    /\ ret' = [RetNone("add_fusion_layer") EXCEPT !.arg = names]
    /\ UNCHANGED <<adapters, adapter_modules, active_setup,
                   adapter_fusion_config, steps>>
    /\ UNCHANGED aux

\* set_active_adapters: the composition becomes the active one
set_active_adapters(adapter_setup) ==
    /\ flatten(adapter_setup) \subseteq DOMAIN adapters
    /\ active_setup' = adapter_setup
    /\ ret' = RetNone("set_active_adapters")
    /\ UNCHANGED <<adapters, adapter_modules, adapter_fusion_layer,
                   adapter_fusion_config, nextId, steps>>
    /\ UNCHANGED aux

\* one block's forward pass through its adapters
\* what a forward pass through the block hands back
ForwardRet(blk, r) == Ret("adapters_forward", blk, r.err, r.hs, r.calls, 0)

Forward(blk) ==
    /\ ret' = ForwardRet(blk, adapters_forward(blk, HiddenStates, InputTensor))
    /\ UNCHANGED <<adapters, adapter_modules, adapter_fusion_layer,
                   active_setup, adapter_fusion_config, nextId, steps>>
    /\ UNCHANGED aux

\* an optimizer step changes the value weight of one fusion module
OptimizerStep(blk, key, weight) ==
    /\ steps < MaxTrainSteps
    /\ key \in DOMAIN adapter_fusion_layer[blk]
    /\ adapter_fusion_layer[blk][key].has_value
    /\ adapter_fusion_layer' =
         [adapter_fusion_layer EXCEPT ![blk][key].weight = weight]
    /\ steps' = steps + 1
    /\ ret' = RetNone("optimizer_step")
    /\ UNCHANGED <<adapters, adapter_modules, active_setup,
                   adapter_fusion_config, nextId>>
    /\ UNCHANGED aux

\* BertModelAdaptersMixin.get_fusion_regularization_loss
RegularizationLoss ==
    /\ ret' = Ret("get_fusion_regularization_loss", NoBlock, NoErr, NoTensor,
                  <<>>, get_fusion_regularization_loss)
    /\ UNCHANGED <<adapters, adapter_modules, adapter_fusion_layer,
                   active_setup, adapter_fusion_config, nextId, steps>>
    /\ UNCHANGED aux

\* BertEncoderAdaptersMixin.enable_adapters: every block of every layer
EnableAdapters(adapter_setup, unfreeze_adapters, unfreeze_fusion) ==
    /\ trainable' = trainable \cup
          UNION {enable_adapters(blk, adapter_setup, unfreeze_adapters,
                                 unfreeze_fusion) : blk \in Blocks}
    /\ ret' = RetNone("enable_adapters")
    /\ UNCHANGED <<adapters, adapter_modules, adapter_fusion_layer,
                   active_setup, adapter_fusion_config, nextId, steps>>
    /\ UNCHANGED <<head_vars, model_pass, in_flight>>

\* the head registry after a call that returned r
HeadsAfter(op, r) ==
    /\ heads' = r.heads
    /\ prediction_heads' = r.prediction_heads
    /\ active_head' = r.active_head
    /\ label2id' = r.label2id
    /\ id2label' = r.id2label
    /\ ret' = [RetNone(op) EXCEPT !.err = r.err, !.arg = r.arg]

\* BertModelHeadsMixin.add_classification_head
add_classification_head(head_name, num_labels, overwrite_ok, id2label_arg) ==
    /\ nextHead < MaxHeadCalls
    /\ nextHead' = nextHead + 1
    /\ HeadsAfter("add_classification_head",
           add_prediction_head(
               ClassificationHead(head_name, nextHead + 1, num_labels,
                                  id2label_arg),
               overwrite_ok))
    /\ UNCHANGED <<adapters, adapter_modules, adapter_fusion_layer,
                   active_setup, adapter_fusion_config, nextId, steps,
                   trainable, custom_heads, model_pass, in_flight>>

\* BertModelHeadsMixin.register_custom_head
register_custom_head(identifier) ==
    /\ identifier \notin custom_heads
    /\ custom_heads' = custom_heads \cup {identifier}
    /\ ret' = RetNone("register_custom_head")
    /\ UNCHANGED <<adapters, adapter_modules, adapter_fusion_layer,
                   active_setup, adapter_fusion_config, nextId, steps,
                   trainable, heads, prediction_heads, active_head, label2id,
                   id2label, nextHead, model_pass, in_flight>>

\* add_custom_head: what the call hands back
custom_head_added(head_name, id, config, overwrite_ok) ==
    IF config.head_type \in custom_heads
    THEN add_prediction_head(CustomHead(head_name, id, config), overwrite_ok)
    ELSE head_call_failed(NotRegisteredError, head_name, overwrite_ok)

\* BertModelHeadsMixin.add_custom_head
add_custom_head(head_name, config, overwrite_ok) ==
    /\ nextHead < MaxHeadCalls
    /\ nextHead' = nextHead + 1
    /\ HeadsAfter("add_custom_head",
           custom_head_added(head_name, nextHead + 1, config, overwrite_ok))
    /\ UNCHANGED <<adapters, adapter_modules, adapter_fusion_layer,
                   active_setup, adapter_fusion_config, nextId, steps,
                   trainable, custom_heads, model_pass, in_flight>>

\* the id2label that add_prediction_head_from_config passes on
id2label_of(config) ==
    IF "label2id" \notin DOMAIN config THEN NoLabels
    ELSE IF TruthyLabels(config.label2id) THEN invert_labels(config.label2id)
    ELSE NoLabels

\* add_prediction_head_from_config: what the call hands back
head_from_config(head_name, id, config, overwrite_ok) ==
    IF config.head_type = "classification"
    THEN add_prediction_head(
             ClassificationHead(head_name, id, config.num_labels,
                                id2label_of(config)),
             overwrite_ok)
    ELSE custom_head_added(head_name, id, config, overwrite_ok)

\* BertModelHeadsMixin.add_prediction_head_from_config
add_prediction_head_from_config(head_name, config, overwrite_ok) ==
    /\ nextHead < MaxHeadCalls
    /\ nextHead' = nextHead + 1
    /\ HeadsAfter("add_prediction_head_from_config",
           head_from_config(head_name, nextHead + 1, config, overwrite_ok))
    /\ UNCHANGED <<adapters, adapter_modules, adapter_fusion_layer,
                   active_setup, adapter_fusion_config, nextId, steps,
                   trainable, custom_heads, model_pass, in_flight>>

\* `if self.active_adapters:` - a composition with at least one child
NonEmpty(adapter_setup) ==
    adapter_setup # NoSetup
    /\ (IsBlock(adapter_setup) => Len(adapter_setup.children) > 0)

\* mutant: without a head of that name no head is active afterwards
head_after_activation_reset(adapter_setup) ==
    IF NonEmpty(adapter_setup) /\ last(adapter_setup) \in DOMAIN heads
    THEN last(adapter_setup) ELSE NoHead

\* `head_name = self.active_adapters.last()` and the test for a head of
\* that name: the active head afterwards
head_after_activation(adapter_setup) ==
    IF NonEmpty(adapter_setup) /\ last(adapter_setup) \in DOMAIN heads
    THEN last(adapter_setup) ELSE active_head

\* `self.active_head = head_name` if a head of that name is registered:
\* the setter's error, config.label2id and config.id2label afterwards
activation_labels(adapter_setup) ==
    IF NonEmpty(adapter_setup)
    THEN active_head_setter(
             IF last(adapter_setup) \in DOMAIN heads
             THEN last(adapter_setup) ELSE NoHead,
             heads, LabelsNow)
    ELSE active_head_setter(NoHead, heads, LabelsNow)

\* BertModelHeadsMixin.set_active_adapters: activation on the base model,
\* then the head named like the last adapter
heads_set_active_adapters(adapter_setup) ==
    /\ flatten(adapter_setup) \subseteq DOMAIN adapters
    /\ active_setup' = adapter_setup
    /\ active_head' = head_after_activation(adapter_setup)
    /\ label2id' = activation_labels(adapter_setup).label2id
    /\ id2label' = activation_labels(adapter_setup).id2label
    /\ ret' = [RetNone("set_active_adapters") EXCEPT
                 !.err = activation_labels(adapter_setup).err,
                 !.arg = adapter_setup]
    /\ UNCHANGED <<adapters, adapter_modules, adapter_fusion_layer,
                   adapter_fusion_config, nextId, steps, trainable, heads,
                   prediction_heads, custom_heads, nextHead, model_pass,
                   in_flight>>

\* a model forward pass starts: the first block is next
BeginPass ==
    /\ model_pass.pc = 0
    /\ model_pass' = [pc |-> 1, log |-> <<>>]
    /\ ret' = RetNone("forward")
    /\ UNCHANGED <<adapters, adapter_modules, adapter_fusion_layer,
                   active_setup, adapter_fusion_config, nextId, steps,
                   trainable, head_vars, in_flight>>

\* the pass reaches its next block, which runs adapters_forward
PassStep ==
    /\ model_pass.pc > 0
    /\ ret' = ForwardRet(BlockOrder[model_pass.pc],
                  adapters_forward(BlockOrder[model_pass.pc], HiddenStates,
                                   InputTensor))
    /\ model_pass' = pass_step(model_pass)
    /\ UNCHANGED <<adapters, adapter_modules, adapter_fusion_layer,
                   active_setup, adapter_fusion_config, nextId, steps,
                   trainable, head_vars, in_flight>>

\* a call of get_adapter_preparams with the given config and tensors
Preparams(adapter_config, hidden_states, input_tensor) ==
    /\ ret' = [RetNone("get_adapter_preparams") EXCEPT
                 !.calls = <<PreparamsCall(adapter_config, hidden_states,
                                           input_tensor)>>,
                 !.arg = get_adapter_preparams(adapter_config, hidden_states,
                                               input_tensor)]
    /\ UNCHANGED <<adapters, adapter_modules, adapter_fusion_layer,
                   active_setup, adapter_fusion_config, nextId, steps>>
    /\ UNCHANGED aux

\* no forward pass is under way
Quiescent == \A c \in Callers : in_flight[c].pc = 0

\* caller c starts a forward pass
BeginFlight(c) ==
    /\ in_flight[c].pc = 0
    /\ in_flight' = [in_flight EXCEPT ![c] = [pc |-> 1, out |-> <<>>]]
    /\ ret' = RetNone("forward")
    /\ UNCHANGED <<adapters, adapter_modules, adapter_fusion_layer,
                   active_setup, adapter_fusion_config, nextId, steps,
                   trainable, head_vars, model_pass>>

\* the pass after its block at position pc handed back r: an error ends
\* the pass there, otherwise the next block follows
flight_step(fl, r) ==
    [pc |-> IF r.err # NoErr THEN Over ELSE fl.pc + 1,
     out |-> Append(fl.out, r)]

\* mutant: the block consumes the composition it has dispatched on
FlightStep_consuming(c) ==
    /\ in_flight[c].pc \in 1..Len(BlockOrder)
    /\ ret' = ForwardRet(BlockOrder[in_flight[c].pc],
                  adapters_forward(BlockOrder[in_flight[c].pc], HiddenStates,
                                   InputTensor))
    /\ in_flight' = [in_flight EXCEPT ![c] = flight_step(in_flight[c], ret')]
    /\ active_setup' = NoSetup
    /\ UNCHANGED <<adapters, adapter_modules, adapter_fusion_layer,
                   adapter_fusion_config, nextId, steps,
                   trainable, head_vars, model_pass>>

\* the pass of caller c reaches its next block, which runs
\* adapters_forward; the interpreter assigns to locals only
FlightStep(c) ==
    /\ in_flight[c].pc \in 1..Len(BlockOrder)
    /\ ret' = ForwardRet(BlockOrder[in_flight[c].pc],
                  adapters_forward(BlockOrder[in_flight[c].pc], HiddenStates,
                                   InputTensor))
    /\ in_flight' = [in_flight EXCEPT ![c] = flight_step(in_flight[c], ret')]
    /\ UNCHANGED <<adapters, adapter_modules, adapter_fusion_layer,
                   active_setup, adapter_fusion_config, nextId, steps,
                   trainable, head_vars, model_pass>>

\* caller c takes the outcome of its pass
EndFlight(c) ==
    /\ in_flight[c].pc = Over
    /\ in_flight' = [in_flight EXCEPT ![c] = NoFlight]
    /\ ret' = RetNone("forward")
    /\ UNCHANGED <<adapters, adapter_modules, adapter_fusion_layer,
                   active_setup, adapter_fusion_config, nextId, steps,
                   trainable, head_vars, model_pass>>

Next ==
    \/ \E n \in Names, c \in ConfigSet : add_adapter(n, c)
    \/ \E l \in FusionInputs : AddFusionLayer(l, TRUE, Identity)
    \/ \E s \in SetupInputs : set_active_adapters(s)
    \/ \E blk \in Blocks : Forward(blk)

Spec == Init /\ [][Next]_vars

\* Training of the fusion modules: the registries, the value weights and
\* the regularization loss, with two adapters.
InitLoss == Init /\ adapter_fusion_config = "query_before_ln"

NextLoss ==
    \/ \E n \in {A, B}, c \in ConfigSet : add_adapter(n, c)
    \/ \E l \in FusionInputs, v \in BOOLEAN : AddFusionLayer(l, v, Identity)
    \/ \E blk \in Blocks, l \in FusionInputs, w \in WeightSet :
          OptimizerStep(blk, KeyOf(l), w)
    \/ RegularizationLoss

SpecLoss == InitLoss /\ [][NextLoss]_vars

\* A model with prediction heads: two adapters, the head registry and
\* the activation of compositions.
HeadSetups ==
    { Stack(<<>>), Stack(<<la>>), Stack(<<la, lb>>), Fuse(<<lb, la>>),
      Split(la, lb, 1), lb }

InitHeads == Init /\ adapter_fusion_config = "absent"

NextHeads ==
    \/ \E n \in {A, B} : add_adapter(n, PfeifferLike)
    \/ \E n \in {A, B}, k \in 1..MaxLabels, ok, given \in BOOLEAN :
          add_classification_head(n, k, ok,
              IF given THEN CallerLabels(k) ELSE NoLabels)
    \/ \E s \in HeadSetups : heads_set_active_adapters(s)

SpecHeads == InitHeads /\ [][NextHeads]_vars

\* The label mappings of a model with prediction heads: heads of the
\* built-in classification type and of custom types, added directly or
\* from a saved config, and the activation of compositions.
\* a label2id that gives two labels the same id
TwoNamesOneId == <<(<<(<<"x", 0>>), 0>>), (<<(<<"y", 0>>), 0>>)>>

CustomConfigs ==
    { [head_type |-> "custom", num_labels |-> MaxLabels],
      [head_type |-> "custom",
       label2id |-> invert_labels(CallerLabels(MaxLabels))],
      [head_type |-> "custom"],
      [head_type |-> "custom", label2id |-> NoLabels],
      [head_type |-> "custom",
       label2id |-> [given |-> TRUE, map |-> TwoNamesOneId]],
      [head_type |-> "other", num_labels |-> 1] }

SavedConfigs ==
    { [head_type |-> "classification", num_labels |-> MaxLabels,
       label2id |-> DefaultLabels(MaxLabels)],
      [head_type |-> "classification", num_labels |-> MaxLabels,
       label2id |-> NoLabels],
      [head_type |-> "classification", num_labels |-> MaxLabels,
       label2id |-> [given |-> TRUE, map |-> TwoNamesOneId]],
      [head_type |-> "custom", num_labels |-> MaxLabels],
      [head_type |-> "custom"] }

LabelSetups == { Stack(<<la>>), Stack(<<la, lb>>) }

NextLabels ==
    \/ \E n \in {A, B} : add_adapter(n, PfeifferLike)
    \/ register_custom_head("custom")
    \/ \E n \in {A, B}, ok \in BOOLEAN,
          l \in {NoLabels, CallerLabels(MaxLabels)} :
          add_classification_head(n, MaxLabels, ok, l)
    \/ \E n \in {A, B}, c \in CustomConfigs, ok \in BOOLEAN :
          add_custom_head(n, c, ok)
    \/ \E n \in {A, B}, c \in SavedConfigs, ok \in BOOLEAN :
          add_prediction_head_from_config(n, c, ok)
    \/ \E s \in LabelSetups : heads_set_active_adapters(s)

SpecLabels == InitHeads /\ [][NextLabels]_vars

\* A model forward pass block by block, with activations of compositions
\* that may take effect while a pass is under way.
PassSetups == { Stack(<<la>>), Stack(<<lb>>), Fuse(<<la, lb>>) }

InitPass == Init /\ adapter_fusion_config = "absent"

NextPass ==
    \/ \E n \in {A, B}, c \in ConfigSet : add_adapter(n, c)
    \/ \E s \in PassSetups : set_active_adapters(s)
    \/ BeginPass
    \/ PassStep

SpecPass == InitPass /\ [][NextPass]_vars

\* Forward passes of several callers, block by block and interleaved;
\* the registries and the active composition change only while no pass
\* is under way.
FlightSetups ==
    { Stack(<<la>>), Stack(<<la, lb>>), Fuse(<<la, lb>>),
      Stack(<<la, Stack(<<lb>>)>>) }

InitFlight == Init /\ adapter_fusion_config = "query_before_ln"

NextFlight ==
    \/ \E n \in {A, B}, c \in ConfigSet : Quiescent /\ add_adapter(n, c)
    \/ Quiescent /\ AddFusionLayer([islist |-> TRUE, val |-> <<A, B>>], TRUE,
                                    Identity)
    \/ \E s \in FlightSetups : Quiescent /\ set_active_adapters(s)
    \/ \E c \in Callers : BeginFlight(c)
    \/ \E c \in Callers : FlightStep(c)
    \/ \E c \in Callers : EndFlight(c)

SpecFlight == InitFlight /\ [][NextFlight]_vars

\* The resolver on its own: every combination of the placement flags and
\* of the fusion configuration, on tensors as the interpreter passes them.
PreparamConfigs ==
    {Cfg(FALSE, TRUE, {}, rbl, olb, ola) : rbl, olb, ola \in BOOLEAN}

PreparamTensors ==
    { <<HiddenStates, InputTensor>>,
      <<layer_norm(HiddenStates, InputTensor), InputTensor>>,
      <<adapter_output(A, HiddenStates, HiddenStates), InputTensor>>,
      <<adapter_output(B, layer_norm(HiddenStates, InputTensor), HiddenStates),
        InputTensor>>,
      <<slice_to(HiddenStates, 1), slice_to(InputTensor, 1)>>,
      <<slice_from(HiddenStates, 1), slice_from(InputTensor, 1)>> }

NextPreparams ==
    \E c \in PreparamConfigs, t \in PreparamTensors : Preparams(c, t[1], t[2])

SpecPreparams == Init /\ [][NextPreparams]_vars

\* Unfreezing for training: the registries of two adapters and the
\* requires_grad flags set by enable_adapters.
InitTrain == Init /\ adapter_fusion_config = "query_after_ln"

NextTrain ==
    \/ \E n \in {A, B}, c \in ConfigSet : add_adapter(n, c)
    \/ \E l \in FusionInputs : AddFusionLayer(l, TRUE, Identity)
    \/ \E s \in TrainSetups, ua, uf \in BOOLEAN : EnableAdapters(s, ua, uf)
    \/ \E s \in TrainSetups : set_active_adapters(s)
    \/ \E blk \in Blocks : Forward(blk)

SpecTrain == InitTrain /\ [][NextTrain]_vars

\* ===================================================================
\* Properties
\* ===================================================================
IsForward == ret.op = "adapters_forward"
\* the block of the last forward pass hosts an adapter of the active setup
Hosts == (adapter_modules[ret.blk] \cap flatten(active_setup)) # {}
PlainLayerNorm == layer_norm(HiddenStates, InputTensor)

C2_SingleLeafStack ==
    \A n \in Names :
      (IsForward /\ active_setup = Stack(<<Leaf(n)>>)
         /\ n \in adapter_modules[ret.blk])
      => LET cfg == adapters[n]
             h1 == IF cfg.original_ln_before THEN PlainLayerNorm
                   ELSE HiddenStates
             res == IF cfg.residual_before_ln THEN HiddenStates ELSE h1
             out == adapter_output(n, h1, res)
         IN /\ ret.err = NoErr
            /\ ret.calls = <<PreparamsCall(cfg, HiddenStates, InputTensor),
                             AdapterCall(n, h1, res)>>
            /\ ret.hs = IF cfg.original_ln_after
                        THEN layer_norm(out, InputTensor) ELSE out

\* a hosted single-Leaf Stack whose config has no layer norm afterwards
C2_Witness ==
    /\ IsForward
    /\ active_setup = Stack(<<la>>)
    /\ A \in adapter_modules[ret.blk]
    /\ ~adapters[A].original_ln_after
    /\ ret.err = NoErr
    /\ Len(ret.calls) = 2

\* ------------------------------------------------------------- C3
Children(node) == {node.children[i] : i \in 1..Len(node.children)}

\* a composite node sits two or more levels below the top-level node
CompositeTwoLevelsDown(top) ==
    \E c \in Children(top) : IsBlock(c) /\ \E d \in Children(c) : IsBlock(d)

\* the Fuse and Split nodes the interpreter can enter: the top-level node,
\* or a child of the top-level Stack
EnteredFuseSplit(top) ==
    IF top.kind \in {"Fuse", "Split"} THEN {top}
    ELSE IF top.kind = "Stack"
         THEN {c \in Children(top) : c.kind \in {"Fuse", "Split"}}
         ELSE {}

\* a Stack entered from a Fuse or a Split has a composite child
NestedStackHasComposite(top) ==
    \E f \in EnteredFuseSplit(top) :
        \E c \in Children(f) :
            c.kind = "Stack" /\ \E d \in Children(c) : IsBlock(d)

\* a top-level Stack of Leaves and of Fuse or Split nodes whose children
\* are Leaves or Stacks of Leaves
WithinLimit(top) ==
    /\ top.kind = "Stack"
    /\ \A c \in Children(top) :
          \/ ~IsBlock(c)
          \/ /\ c.kind \in {"Fuse", "Split"}
             /\ \A d \in Children(c) :
                   \/ ~IsBlock(d)
                   \/ d.kind = "Stack" /\ \A e \in Children(d) : ~IsBlock(e)

\* the block of the last forward pass hosts every adapter of the setup
AllHosted == flatten(active_setup) \subseteq adapter_modules[ret.blk]

\* every Fuse the interpreter can enter has its fusion module in the block
KeysRegistered ==
    \A f \in EnteredFuseSplit(active_setup) :
        f.kind = "Fuse" => f.name \in DOMAIN adapter_fusion_layer[ret.blk]

\* C3 as stated, in its weakest reading: a tree with a composite node two
\* or more levels below the top-level node never yields a result.
C3_Original ==
    (IsForward /\ Hosts /\ CompositeTwoLevelsDown(active_setup))
        => ret.err # NoErr

\* C3 amended: the level is 0 at the top and in a Fuse or Split entered
\* from a Stack, and 1 in a Stack entered from a Fuse or Split; the depth
\* error is raised only for a composite child of a Stack at level 1, and a
\* tree with such a child never yields a result. A Stack of Leaves inside
\* a Fuse inside the top-level Stack is within the limit.
C3_DepthLimit ==
    IsForward =>
      /\ ret.err = DepthError => NestedStackHasComposite(active_setup)
      /\ (Hosts /\ NestedStackHasComposite(active_setup)) => ret.err # NoErr
      /\ (WithinLimit(active_setup) /\ AllHosted /\ KeysRegistered)
           => ret.err = NoErr

\* a forward pass that stops with the depth error
C3_Witness ==
    /\ IsForward
    /\ Hosts
    /\ ret.err = DepthError
    /\ active_setup.kind = "Split"

\* ------------------------------------------------------------- C4
\* a direct child of the top-level node of a kind that may not be nested
\* there: a Stack in a Stack, a Fuse or Split in a Fuse or Split
InvalidChild(top) ==
    \/ top.kind = "Stack" /\ \E c \in Children(top) : c.kind = "Stack"
    \/ top.kind \in {"Fuse", "Split"}
         /\ \E c \in Children(top) : c.kind \in {"Fuse", "Split"}

\* C4: a composite child in a position where its kind is not valid makes
\* the forward pass raise an error, at level 0 too; it is never skipped.
C4_InvalidNestingRaises ==
    (IsForward /\ Hosts /\ InvalidChild(active_setup)) => ret.err # NoErr

\* ------------------------------------------------------------- C5
\* the nesting rules: Leaves, and one level of composites below the
\* top-level node (Fuse or Split in a Stack, Stack in a Fuse or Split)
ValidNesting(top) ==
    \/ /\ top.kind = "Stack"
       /\ \A c \in Children(top) :
             \/ ~IsBlock(c)
             \/ c.kind \in {"Fuse", "Split"} /\ \A d \in Children(c) : ~IsBlock(d)
    \/ /\ top.kind \in {"Fuse", "Split"}
       /\ \A c \in Children(top) :
             \/ ~IsBlock(c)
             \/ c.kind = "Stack" /\ \A d \in Children(c) : ~IsBlock(d)

\* C5: with a composition that satisfies the nesting rules, on a block that
\* hosts at least one of its adapters (and the fusion modules it names),
\* the forward pass completes without raising; an absent Leaf is passed
\* over.
C5_AbsentLeafIsNoError ==
    (IsForward /\ Hosts /\ ValidNesting(active_setup) /\ KeysRegistered)
        => ret.err = NoErr

\* ------------------------------------------------------------- C6
\* what the resolver hands back for a config, written out by hand
ResolvedHidden(cfg) ==
    IF cfg.original_ln_before THEN PlainLayerNorm ELSE HiddenStates
ResolvedResidual(cfg) ==
    IF cfg.residual_before_ln THEN HiddenStates ELSE ResolvedHidden(cfg)

\* child c of a Split applied by hand to its own segment
SegmentByHand(blk, c, seg, xseg, rseg) ==
    IF c.kind = "Stack" THEN adapter_stack(blk, c, seg, xseg, 1, <<>>).hs
    ELSE IF c.name \in adapter_modules[blk] THEN adapter_output(c.name, seg, rseg)
    ELSE seg

SplitByHand(blk, setup) ==
    LET cfg == adapters[first(setup)]
        k == setup.split_index
        h1 == ResolvedHidden(cfg)
        res == ResolvedResidual(cfg)
        out == SegmentByHand(blk, setup.children[1], SubSeq(h1, 1, k),
                             SubSeq(InputTensor, 1, k), SubSeq(res, 1, k))
               \o SegmentByHand(blk, setup.children[2], SubSeq(h1, k + 1, SeqLen),
                                SubSeq(InputTensor, k + 1, SeqLen),
                                SubSeq(res, k + 1, SeqLen))
    IN IF adapters[last(setup)].original_ln_after
       THEN layer_norm(out, InputTensor) ELSE out

\* C6: a Split at index k, 0 < k < L, resolves once on the full-width
\* tensors with the first child's config and returns, in the original
\* order, child 0's output on [0,k) and child 1's output on [k,L), for
\* Leaf children and for nested Stacks; the result has length L.
C6_SplitEqualsSlicing ==
    (IsForward /\ Hosts /\ active_setup.kind = "Split" /\ ret.err = NoErr
       /\ active_setup.split_index > 0 /\ active_setup.split_index < SeqLen)
    => /\ ret.calls[1] = PreparamsCall(adapters[first(active_setup)],
                                       HiddenStates, InputTensor)
       /\ Len(ret.hs) = SeqLen
       /\ ret.hs = SplitByHand(ret.blk, active_setup)

\* the same for a Split whose children are Leaves
SplitOfLeavesEqualsSlicing ==
    (IsForward /\ \A c \in Children(active_setup) : ~IsBlock(c))
        => C6_SplitEqualsSlicing

\* ------------------------------------------------------------- C7
\* the up-projection child c of a Fuse computes from the resolved input
UpByHand(blk, c, h1, res) ==
    IF c.kind = "Stack" THEN adapter_stack(blk, c, h1, InputTensor, 1, <<>>).up
    ELSE adapter_up(c.name, h1, res)

\* C7: the tensor a Fuse over n children stacks for Fusion Attention has n
\* entries, entry i being the up-projection computed from child i, also
\* when some children are absent from the block.
C7_FuseStacksEveryChild ==
    (IsForward /\ Hosts /\ active_setup.kind = "Fuse" /\ ret.err = NoErr)
    => LET call == ret.calls[Len(ret.calls)]
           cfg == adapters[last(active_setup)]
           n == Len(active_setup.children)
       IN /\ call[1] = "fusion"
          /\ Len(call[4]) = n
          /\ \A i \in 1..n :
                call[4][i] = UpByHand(ret.blk, active_setup.children[i],
                                      ResolvedHidden(cfg), ResolvedResidual(cfg))

\* the same on a block that hosts every adapter of the Fuse
FuseOfHostedStacksEveryChild ==
    (IsForward /\ AllHosted) => C7_FuseStacksEveryChild

\* ------------------------------------------------------------- C8
Dispatched == {"Stack", "Fuse", "Split"}

IsLoss == ret.op = "get_fusion_regularization_loss"

\* the fusion modules of the model that have a value projection
ValueModules ==
    {m \in Blocks \X {KeyOf(l) : l \in FusionInputs} :
        /\ m[2] \in DOMAIN adapter_fusion_layer[m[1]]
        /\ adapter_fusion_layer[m[1]][m[2]].has_value}

\* the entries in which a value weight differs from the identity matrix;
\* the weights are 0/1 matrices, so each contributes 1 to the squared
\* distance
DifferingCells ==
    {c \in ValueModules \X (1..HiddenSize) \X (1..HiddenSize) :
        adapter_fusion_layer[c[1][1]][c[1][2]].weight[c[2]][c[3]]
            # (IF c[2] = c[3] THEN 1 ELSE 0)}

\* C9: the regularization loss is 0 with no fusion module and 0 when every
\* value weight is the identity; in general it is the sum, over the fusion
\* modules of both locations of every layer, of 0.01 times the squared
\* distance between the identity and the module's value weight (counted
\* here in hundredths).
C9_RegularizationLoss ==
    IsLoss =>
       /\ ret.value = RegCoefficient * Cardinality(DifferingCells)
       /\ (\A blk \in Blocks : DOMAIN adapter_fusion_layer[blk] = {})
             => ret.value = 0
       /\ (\A m \in ValueModules :
              adapter_fusion_layer[m[1]][m[2]].weight = Identity)
             => ret.value = 0

C9_Witness ==
    /\ IsLoss
    /\ ret.value > 0
    /\ \E m \in ValueModules :
          /\ m[1][2] = "mh_adapter"
          /\ adapter_fusion_layer[m[1]][m[2]].weight # Identity
    /\ \E m \in ValueModules :
          /\ m[1][2] = "output_adapter"
          /\ adapter_fusion_layer[m[1]][m[2]].weight = Identity

\* ------------------------------------------------------------ C10
IsAddFusion == ret.op = "add_fusion_layer"

\* the names of the call as a list, and the key they are registered under
ArgList == IF ret.arg.islist THEN ret.arg.val ELSE split(ret.arg.val)
ArgKey == IF ret.arg.islist THEN join(ret.arg.val) ELSE ret.arg.val

\* the named adapters have the same value for the location's config key
SharedValue(names, loc) ==
    \A i, j \in 1..Len(names) : adapters[names[i]][loc] = adapters[names[j]][loc]

\* the named adapters all have the location switched on
SharedTrue(names, loc) ==
    \A i \in 1..Len(names) : adapters[names[i]][loc]

\* the block's registry after the call, given whether the entry is created
RegistryAfter(blk, created) ==
    IF created
    THEN /\ DOMAIN adapter_fusion_layer'[blk]
              = DOMAIN adapter_fusion_layer[blk] \cup {ArgKey'}
         /\ adapter_fusion_layer'[blk][ArgKey'].id = nextId'
         /\ \A k \in DOMAIN adapter_fusion_layer[blk] \ {ArgKey'} :
               adapter_fusion_layer'[blk][k] = adapter_fusion_layer[blk][k]
    ELSE adapter_fusion_layer'[blk] = adapter_fusion_layer[blk]

\* C10 as stated: the entry is created exactly when the named adapters
\* share a common config value for the block's location.
C10_Original ==
    [][IsAddFusion' =>
         \A blk \in Blocks :
            RegistryAfter(blk, SharedValue(ArgList', blk[2]))]_vars

\* C10: add_fusion_layer(names) at a block registers the module of this
\* call under the comma-joined names (the key of a list and of its joined
\* string coincide, the key of the reordered list differs) exactly when
\* the named adapters agree on the config value of the block's location
\* and that value is true; otherwise, also when they agree on false, the
\* block's fusion registry is unchanged. A key holds one module, the one
\* of the latest call.
C10_FusionEntry ==
    [][IsAddFusion' =>
         /\ \A blk \in Blocks :
               RegistryAfter(blk, SharedTrue(ArgList', blk[2]))
         /\ \A l \in FusionInputs :
               (KeyOf(l) = ArgKey') <=> (l.val \in {ArgList', ArgKey'})]_vars

C10_Witness ==
    /\ IsAddFusion
    /\ SharedValue(ArgList, "mh_adapter")
    /\ ~SharedTrue(ArgList, "mh_adapter")
    /\ \A l \in Layers :
          /\ ArgKey \notin DOMAIN adapter_fusion_layer[<<l, "mh_adapter">>]
          /\ ArgKey \in DOMAIN adapter_fusion_layer[<<l, "output_adapter">>]

\* ------------------------------------------------------------ C11
\* the blocks that host an adapter with the given config
HostedAt(cfg, blk) == blk[1] \notin cfg.leave_out /\ cfg[blk[2]]

\* C11: after add_adapter(name) a block's registry at a location holds
\* name iff the block's index is not in the config's leave_out and the
\* config enables the location; no later add_adapter, add_fusion_layer,
\* enable_adapters or forward pass removes an entry.
C11_RegistryLifecycle ==
    [][/\ \A blk \in Blocks :
            /\ adapter_modules'[blk] \subseteq DOMAIN adapters'
            /\ \A n \in DOMAIN adapters' :
                  n \in adapter_modules'[blk] <=> HostedAt(adapters'[n], blk)
            /\ adapter_modules[blk] \subseteq adapter_modules'[blk]
       /\ ret'.op # "add_adapter" => adapter_modules' = adapter_modules]_vars

C11_Witness ==
    /\ ret.op = "enable_adapters"
    /\ trainable # {}
    /\ \E n \in DOMAIN adapters :
          /\ adapters[n].leave_out = {0}
          /\ n \in adapter_modules[<<1, "mh_adapter">>]
          /\ n \notin adapter_modules[<<0, "mh_adapter">>]
          /\ n \notin adapter_modules[<<0, "output_adapter">>]
    /\ \E n \in DOMAIN adapters :
          /\ ~adapters[n].mh_adapter
          /\ n \in adapter_modules[<<0, "output_adapter">>]
          /\ n \notin adapter_modules[<<0, "mh_adapter">>]

\* ------------------------------------------------------------ C12
IsAddHead == ret.op = "add_classification_head"

\* C12: add_prediction_head with a name that is already registered and
\* overwrite_ok false raises and leaves the head registry,
\* config.prediction_heads and the active head unchanged; with a new name
\* or overwrite_ok true the head of this call is stored under its name,
\* its config under the same name in config.prediction_heads, and it is
\* the active head.
C12_AddPredictionHead ==
    [][IsAddHead' =>
         IF ret'.arg.head_name \in DOMAIN heads /\ ~ret'.arg.overwrite_ok
         THEN /\ ret'.err = HeadExistsError
              /\ UNCHANGED <<heads, prediction_heads, active_head>>
         ELSE /\ ret'.err = NoErr
              /\ DOMAIN heads' = DOMAIN heads \cup {ret'.arg.head_name}
              /\ DOMAIN prediction_heads' = DOMAIN heads'
              /\ heads'[ret'.arg.head_name].id = nextHead'
              /\ heads'[ret'.arg.head_name].name = ret'.arg.head_name
              /\ prediction_heads'[ret'.arg.head_name]
                    = heads'[ret'.arg.head_name].config
              /\ active_head' = ret'.arg.head_name
              /\ \A n \in DOMAIN heads \ {ret'.arg.head_name} :
                    /\ heads'[n] = heads[n]
                    /\ prediction_heads'[n] = prediction_heads[n]]_vars

C12_Witness ==
    /\ IsAddHead
    /\ ret.err = HeadExistsError
    /\ ret.arg.head_name \in DOMAIN heads
    /\ active_head \in DOMAIN heads
    /\ active_head # ret.arg.head_name

\* ------------------------------------------------------------ C13
IsActivate == ret.op = "set_active_adapters"

\* the composition has a last adapter
HasLast(setup) ==
    setup.kind # "None" /\ (setup.kind = "str" \/ Len(setup.children) > 0)

\* C13: set_active_adapters on a model with heads activates the
\* composition and, if it is non-empty and a head is registered under the
\* name of its last adapter, makes that head the active one; otherwise the
\* call does not fail and the active head keeps its value.
C13_HeadFollowsLastAdapter ==
    [][IsActivate' =>
         /\ ret'.err = NoErr
         /\ active_setup' = ret'.arg
         /\ IF HasLast(active_setup') /\ last(active_setup') \in DOMAIN heads
            THEN active_head' = last(active_setup')
            ELSE active_head' = active_head
         /\ UNCHANGED <<heads, prediction_heads>>]_vars

C13_Witness ==
    /\ IsActivate
    /\ HasLast(active_setup)
    /\ last(active_setup) \notin DOMAIN heads
    /\ active_head \in DOMAIN heads

\* ------------------------------------------------------------ C14
\* a block of a model pass has just run
IsPassStep == ret.op = "adapters_forward" /\ model_pass.log # <<>>

\* C14 as stated: all blocks traversed during one model forward pass
\* dispatch on the same composition, also when an activation takes effect
\* between two blocks.
C14_Original ==
    \A i, j \in 1..Len(model_pass.log) : model_pass.log[i] = model_pass.log[j]

\* C14: the active composition is read once per block invocation: every
\* block traversed by a model pass dispatches on the composition that is
\* active when the block runs, and the block does not change it; so the
\* blocks of one pass dispatch on the same composition if no activation
\* takes effect during the pass, and blocks after an activation dispatch
\* on the new composition.
C14_ReadPerBlock ==
    [][IsPassStep' =>
         /\ Len(model_pass'.log) = Len(model_pass.log) + 1
         /\ model_pass'.log[Len(model_pass'.log)] = active_setup
         /\ active_setup' = active_setup
         /\ ret'.blk = BlockOrder[Len(model_pass'.log)]
         /\ ret' = ForwardRet(ret'.blk,
                       adapters_forward(ret'.blk, HiddenStates, InputTensor))
         /\ IsPassStep => (model_pass'.log[Len(model_pass.log)]
                             = model_pass'.log[Len(model_pass'.log)])]_vars

C14_Witness ==
    /\ IsPassStep
    /\ model_pass.pc = 0
    /\ Len(model_pass.log) = Len(BlockOrder)
    /\ model_pass.log[1] # model_pass.log[Len(BlockOrder)]
    /\ model_pass.log[Len(BlockOrder)] = active_setup

\* ------------------------------------------------------------ C15
IsPreparams == ret.op = "get_adapter_preparams"

\* LayerNorm(h + x), position by position
NormOf(h, x) == [p \in 1..Len(h) |-> <<"LayerNorm", h[p], x[p]>>]

\* C15: the resolver returns hidden_states' = LayerNorm(hidden_states +
\* input_tensor) if original_ln_before, else the input; residual = the
\* input hidden_states if residual_before_ln, else hidden_states'; query =
\* none without a fusion configuration, the input hidden_states when
\* query_before_ln, and hidden_states' otherwise, whatever
\* residual_before_ln is.
C15_Preparams ==
    IsPreparams =>
       LET cfg == ret.calls[1][2]
           h == ret.calls[1][3]
           x == ret.calls[1][4]
           r == ret.arg
       IN /\ r.hidden_states = IF cfg.original_ln_before THEN NormOf(h, x) ELSE h
          /\ r.residual = IF cfg.residual_before_ln THEN h ELSE r.hidden_states
          /\ adapter_fusion_config = "absent"
                => \A p \in 1..Len(h) : r.query[p] = <<"None">>
          /\ adapter_fusion_config = "query_before_ln" => r.query = h
          /\ adapter_fusion_config = "query_after_ln" => r.query = r.hidden_states

C15_Witness ==
    /\ IsPreparams
    /\ ret.calls[1][2].residual_before_ln
    /\ ret.calls[1][2].original_ln_before
    /\ adapter_fusion_config = "query_after_ln"
    /\ ret.arg.residual = ret.calls[1][3]
    /\ ret.arg.residual # ret.arg.hidden_states
    /\ ret.arg.query = ret.arg.hidden_states

\* ------------------------------------------------------------ C16
\* the resolver's hidden_states' and residual for config cfg on tensor h
ResolvedH(cfg, h) == IF cfg.original_ln_before THEN NormOf(h, InputTensor) ELSE h
ResolvedR(cfg, h) == IF cfg.residual_before_ln THEN h ELSE ResolvedH(cfg, h)

\* child c of a Stack applied to the running value v = [hs, up] at block
\* blk: an absent Leaf leaves v as it is
ChildApplied(blk, c, v) ==
    IF c.kind = "Fuse"
    THEN [hs |-> adapter_fusion(blk, c, v.hs, InputTensor, 0, <<>>).hs,
          up |-> adapter_fusion(blk, c, v.hs, InputTensor, 0, <<>>).hs]
    ELSE IF c.kind = "Split"
    THEN [hs |-> adapter_split(blk, c, v.hs, InputTensor, 0, <<>>).hs,
          up |-> adapter_split(blk, c, v.hs, InputTensor, 0, <<>>).hs]
    ELSE IF c.kind = "str" /\ c.name \in adapter_modules[blk]
    THEN [hs |-> adapter_output(c.name, ResolvedH(adapters[c.name], v.hs),
                                ResolvedR(adapters[c.name], v.hs)),
          up |-> adapter_up(c.name, ResolvedH(adapters[c.name], v.hs),
                            ResolvedR(adapters[c.name], v.hs))]
    ELSE v

RECURSIVE StackChain(_, _, _, _)
\* children i.. of a Stack applied one after the other, each to what the
\* one before it left
StackChain(blk, ch, i, v) ==
    IF i > Len(ch) THEN v
    ELSE StackChain(blk, ch, i + 1, ChildApplied(blk, ch[i], v))

\* a Stack whose children are Leaves, or Fuse/Split nodes over Leaves
StackOfValidChildren(setup) ==
    /\ setup.kind = "Stack"
    /\ \A c \in Children(setup) :
          \/ c.kind = "str"
          \/ c.kind \in {"Fuse", "Split"} /\ \A d \in Children(c) : d.kind = "str"

\* the Stack children of a Fuse, by position
StackChildren(setup) ==
    {i \in 1..Len(setup.children) : setup.children[i].kind = "Stack"}

\* C16: a Stack applies its children in sequence order: each child gets
\* the hidden state left by the nearest earlier child that was not
\* skipped, every child gets the original input_tensor, the returned
\* hidden state is that of the last child applied and the returned
\* up-projection that of the last entry processed.
C16_StackInOrder ==
    (IsForward /\ Hosts /\ ret.err = NoErr) =>
       /\ StackOfValidChildren(active_setup) =>
             /\ ret.hs =
                  LET out == StackChain(ret.blk, active_setup.children, 1,
                                 [hs |-> HiddenStates, up |-> NoTensor]).hs
                  IN IF adapters[last(active_setup)].original_ln_after
                     THEN NormOf(out, InputTensor) ELSE out
             /\ \A i \in 1..Len(ret.calls) :
                   ret.calls[i][1] = "get_adapter_preparams"
                      => ret.calls[i][4] = InputTensor
       /\ (active_setup.kind = "Fuse"
             /\ \A c \in Children(active_setup) : c.kind = "str" \/ StackOfValidChildren(c))
            => \A i \in StackChildren(active_setup) :
                  ret.calls[Len(ret.calls)][4][i] =
                     StackChain(ret.blk, active_setup.children[i].children, 1,
                        [hs |-> ResolvedH(adapters[last(active_setup)], HiddenStates),
                         up |-> NoTensor]).up

C16_Witness ==
    /\ IsForward
    /\ ret.err = NoErr
    /\ active_setup = Stack(<<la, lb, lc>>)
    /\ adapter_modules[ret.blk] = {A, C}

\* the up-projection a nested Stack hands to its Fuse
NestedStackUpReached ==
    /\ IsForward
    /\ ret.err = NoErr
    /\ active_setup = Fuse(<<Stack(<<lc, la>>), lb>>)
    /\ adapter_modules[ret.blk] = {A, B, C}

\* ------------------------------------------------------------ C17
\* the positions of the call log that hold a call of the given kind
CallsOf(kind) == {i \in 1..Len(ret.calls) : ret.calls[i][1] = kind}

\* the names of the Leaf children of a node
LeafChildren(setup) == {c.name : c \in {d \in Children(setup) : d.kind = "str"}}

\* the query the resolver hands back for config cfg on HiddenStates
ResolvedQ(cfg) ==
    IF adapter_fusion_config = "absent"
    THEN [p \in 1..SeqLen |-> <<"None">>]
    ELSE IF adapter_fusion_config = "query_before_ln" THEN HiddenStates
    ELSE ResolvedH(cfg, HiddenStates)

\* what the fusion module with identity id returns, position by position
FusionOutByHand(id, query, k, v, res) ==
    [p \in 1..Len(res) |->
        <<"BertFusion", id, query[p], [i \in 1..Len(k) |-> k[i][p]],
          [i \in 1..Len(v) |-> v[i][p]], res[p]>>]

\* C17: one evaluation of a Fuse resolves once, with the config of the
\* last child; every child consumes that resolved input; the fusion
\* module registered under Fuse.name is invoked exactly once, with (query,
\* stacked_up, stacked_up, residual), query and residual coming from that
\* resolution; and the node's result is the module's output.
C17_FuseEvaluation ==
    (IsForward /\ Hosts /\ active_setup.kind = "Fuse" /\ ret.err = NoErr) =>
       LET cfg == adapters[last(active_setup)]
           fc == ret.calls[Len(ret.calls)]
       IN /\ ret.calls[1] = <<"get_adapter_preparams", cfg, HiddenStates,
                              InputTensor>>
          /\ (\A c \in Children(active_setup) : c.kind = "str")
                => CallsOf("get_adapter_preparams") = {1}
          /\ \A i \in CallsOf("adapter") :
                ret.calls[i][2] \in LeafChildren(active_setup)
                   => /\ ret.calls[i][3] = ResolvedH(cfg, HiddenStates)
                      /\ ret.calls[i][4] = ResolvedR(cfg, HiddenStates)
          /\ CallsOf("fusion") = {Len(ret.calls)}
          /\ active_setup.name \in DOMAIN adapter_fusion_layer[ret.blk]
          /\ fc[2] = active_setup.name
          /\ fc[3] = ResolvedQ(cfg)
          /\ fc[4] = fc[5]
          /\ fc[6] = ResolvedR(cfg, HiddenStates)
          /\ ret.hs =
               LET out == FusionOutByHand(
                              adapter_fusion_layer[ret.blk][active_setup.name].id,
                              fc[3], fc[4], fc[5], fc[6])
               IN IF cfg.original_ln_after THEN NormOf(out, InputTensor) ELSE out

C17_Witness ==
    /\ IsForward
    /\ ret.err = NoErr
    /\ active_setup = Fuse(<<la, lb>>)
    /\ adapter_modules[ret.blk] = {A, B}
    /\ adapters[A] # adapters[B]
    /\ Len(ret.calls) = 4

\* ------------------------------------------------------------ C18
\* C18: a block constructs at most one fusion module per group key: an
\* add_fusion_layer call leaves every module that is already registered
\* in place, also the one under the key of the call.
C18_ConstructedOnce ==
    [][IsAddFusion' =>
         \A blk \in Blocks :
            \A k \in DOMAIN adapter_fusion_layer[blk] :
               /\ k \in DOMAIN adapter_fusion_layer'[blk]
               /\ adapter_fusion_layer'[blk][k] = adapter_fusion_layer[blk][k]]_vars

\* modules under other keys than that of the call stay in place
OtherKeysStay ==
    [][IsAddFusion' =>
         \A blk \in Blocks :
            \A k \in DOMAIN adapter_fusion_layer[blk] \ {ArgKey'} :
               /\ k \in DOMAIN adapter_fusion_layer'[blk]
               /\ adapter_fusion_layer'[blk][k] = adapter_fusion_layer[blk][k]]_vars

\* ------------------------------------------------------------ C19
\* the Fuse nodes a block can dispatch: the top-level node or children of
\* the top-level Stack
DispatchedFuses(setup) ==
    IF setup.kind = "Fuse" THEN {setup}
    ELSE IF setup.kind = "Stack"
    THEN {c \in Children(setup) : c.kind = "Fuse"}
    ELSE {}

\* add_fusion_layer has been called with the names of every such Fuse: its
\* module is registered in some block of the model
FusionAdded(setup) ==
    \A f \in DispatchedFuses(setup) :
        \E blk \in Blocks : f.name \in DOMAIN adapter_fusion_layer[blk]

\* C19: whenever a block's forward pass dispatches a Fuse and reaches the
\* fusion lookup, the block's fusion registry has a module under
\* Fuse.name, so the lookup does not fail; this also on a block that hosts
\* only some of the fused adapters or whose location is enabled for only
\* some of them.
C19_FuseNameResolves ==
    IsForward => ret.err # FusionKeyError

\* the same when add_fusion_layer was called for every Fuse of the setup
FuseNameResolvesOnceAdded ==
    (IsForward /\ FusionAdded(active_setup)) => ret.err # FusionKeyError

\* ------------------------------------------------------------ C20
\* what block number i of a pass hands back when the pass runs alone on
\* the registries and the composition of the current state
SoloOutcome(i) ==
    ForwardRet(BlockOrder[i],
        adapters_forward(BlockOrder[i], HiddenStates, InputTensor))

\* every pass under way has, block for block, the outcome of a pass that runs
\* alone, and an error is the last thing a pass records
FlightsAsAlone ==
    \A c \in Callers :
        in_flight[c].pc > 0 =>
            \A i \in 1..Len(in_flight[c].out) :
                /\ in_flight[c].out[i] = SoloOutcome(i)
                /\ in_flight[c].out[i].err # NoErr
                       => (i = Len(in_flight[c].out) /\ in_flight[c].pc = Over)

InterleavedPassesReached ==
    /\ IsForward
    /\ \A c \in Callers :
          /\ in_flight[c].pc = Over
          /\ Len(in_flight[c].out) = Len(BlockOrder)
          /\ \E i \in 1..Len(BlockOrder) : in_flight[c].out[i].calls # <<>>

\* ------------------------------------------------------------ C21
\* i holds exactly the items of l with key and value swapped
ExactInverse(l, i) ==
    IF l.given
    THEN /\ i.given
         /\ \A k \in 1..Len(l.map) :
               \E m \in 1..Len(i.map) :
                   i.map[m] = <<l.map[k][2], l.map[k][1]>>
         /\ \A m \in 1..Len(i.map) :
               \E k \in 1..Len(l.map) :
                   l.map[k] = <<i.map[m][2], i.map[m][1]>>
    ELSE ~i.given

\* the head registry and config.prediction_heads have the same names, and
\* each stored config is the config of the head under that name
HeadKeysAgree ==
    /\ DOMAIN heads = DOMAIN prediction_heads
    /\ \A n \in DOMAIN heads : prediction_heads[n] = heads[n].config

\* config.label2id and config.id2label are those of the head h
LabelsOf(h) ==
    /\ "label2id" \in DOMAIN h.config
    /\ label2id = h.config.label2id
    /\ ExactInverse(label2id, id2label)

\* C21: after any sequence of add_prediction_head calls, through the
\* add_*_head operations or add_prediction_head_from_config, succeeding
\* or failing, the head registry and config.prediction_heads have the same
\* names and each stored config is that of the head registered under the
\* name; and whenever the active head names a registered head,
\* config.label2id is that head's label2id and config.id2label is its
\* exact inverse.
C21_HeadBookkeeping ==
    /\ HeadKeysAgree
    /\ active_head \in DOMAIN heads => LabelsOf(heads[active_head])

\* the same for the label mappings, when the last call raised no error
LabelsAgreeAfterSuccess ==
    (ret.err = NoErr /\ active_head \in DOMAIN heads)
        => LabelsOf(heads[active_head])

\* the same when every registered head is one of the built-in
\* classification type
LabelsAgreeForClassification ==
    ((\A n \in DOMAIN heads : heads[n].config.head_type = "classification")
     /\ active_head \in DOMAIN heads)
        => LabelsOf(heads[active_head])

====
